---- MODULE Spec2Model ----
(***************************************************************************)
(* Sky-temperature correction (tsky / _td) and cloud classification        *)
(* (classify_cloud_state) of src/src/aag/sky_temperature.py, with the      *)
(* default coefficient record Skytemp of src/src/aag/settings.py.          *)
(*                                                                         *)
(* Python floats are modelled as IEEE 754 binary64 numbers: a sign bit, a  *)
(* significand of 53 bits, an exponent, signed zeros, infinities, NaNs,    *)
(* round-to-nearest-even, overflow to infinity and gradual underflow down  *)
(* to 2^-1074.  A float is a record [k, s, m, e]: k is "fin", "inf" or     *)
(* "nan", s the sign bit, and a finite value is (-1)^s * m * 2^e, with     *)
(* 2^52 <= m < 2^53 (normal), or m < 2^52 and e = -1074 (subnormal, zero). *)
(* Significands exceed the integers of the model checker, so a natural     *)
(* number is kept as the tuple of its digits in base 2^15.                 *)
(***************************************************************************)
EXTENDS Integers, Sequences, FiniteSets

\* Bits of the significand of a binary64 float.
Precision == 53

\* Exponent of the smallest positive float, 2^-1074, and of the largest
\* ones, (2^53 - 1) * 2^971.
MinExp == -1074

MaxExp == 971

Max(a, b) == IF a >= b THEN a ELSE b

Min(a, b) == IF a <= b THEN a ELSE b

Abs(n) == IF n < 0 THEN -n ELSE n

(***************************************************************************)
(* Natural numbers of any size: a natural is the tuple of its digits in    *)
(* base 2^15, the least significant first, without leading zeros (0 is     *)
(* the empty tuple).                                                       *)
(***************************************************************************)
LimbBits == 15

Base == 32768

P2 == <<1, 2, 4, 8, 16, 32, 64, 128, 256, 512, 1024, 2048, 4096, 8192, 16384, 32768>>

Pow2(k) == P2[k + 1]

Hd(a) == IF a = <<>> THEN 0 ELSE a[1]

Tl(a) == IF a = <<>> THEN a ELSE Tail(a)

RECURSIVE BTrim(_)
\* a without its leading zero digits.
BTrim(a) ==
    IF a = <<>> THEN a
    ELSE IF a[Len(a)] # 0 THEN a
    ELSE BTrim(SubSeq(a, 1, Len(a) - 1))

RECURSIVE FromInt(_)
\* The natural n.
FromInt(n) == IF n = 0 THEN <<>> ELSE <<n % Base>> \o FromInt(n \div Base)

RECURSIVE BAddC(_, _, _)
\* a + b + c, for a carry c.
BAddC(a, b, c) ==
    IF a = <<>> /\ c = 0 THEN b
    ELSE IF b = <<>> /\ c = 0 THEN a
    ELSE IF a = <<>> /\ b = <<>> THEN <<c>>
    ELSE <<(Hd(a) + Hd(b) + c) % Base>> \o BAddC(Tl(a), Tl(b), (Hd(a) + Hd(b) + c) \div Base)

BAdd(a, b) == BAddC(a, b, 0)

RECURSIVE BSubC(_, _, _)
\* a - b - c for a >= b + c, with leading zeros.
BSubC(a, b, c) ==
    IF b = <<>> /\ c = 0 THEN a
    ELSE <<(a[1] - Hd(b) - c + Base) % Base>>
         \o BSubC(Tail(a), Tl(b), IF a[1] - Hd(b) - c < 0 THEN 1 ELSE 0)

\* a - b, for a >= b.
BSub(a, b) == BTrim(BSubC(a, b, 0))

RECURSIVE BCmpAt(_, _, _)
BCmpAt(a, b, i) ==
    IF i = 0 THEN 0
    ELSE IF a[i] < b[i] THEN -1
    ELSE IF a[i] > b[i] THEN 1
    ELSE BCmpAt(a, b, i - 1)

\* -1, 0 or 1 as a < b, a = b or a > b.
BCmp(a, b) ==
    IF Len(a) < Len(b) THEN -1
    ELSE IF Len(a) > Len(b) THEN 1
    ELSE BCmpAt(a, b, Len(a))

RECURSIVE BMulC(_, _, _)
BMulC(a, k, c) ==
    IF a = <<>> THEN (IF c = 0 THEN <<>> ELSE <<c>>)
    ELSE <<((a[1] * k) + c) % Base>> \o BMulC(Tail(a), k, ((a[1] * k) + c) \div Base)

\* a * k, for 0 <= k <= 2^15.
BMulSmall(a, k) == IF k = 0 THEN <<>> ELSE BMulC(a, k, 0)

\* a * 2^(15 n)
ShiftLimbs(a, n) == IF a = <<>> \/ n = 0 THEN a ELSE [i \in 1..n |-> 0] \o a

\* floor(a / 2^(15 n))
DropLimbs(a, n) == IF n >= Len(a) THEN <<>> ELSE SubSeq(a, n + 1, Len(a))

RECURSIVE BMul(_, _)
\* a * b
BMul(a, b) ==
    IF a = <<>> \/ b = <<>> THEN <<>>
    ELSE BAddC(BMulSmall(b, a[1]), ShiftLimbs(BMul(Tail(a), b), 1), 0)

RECURSIVE BDivAt(_, _, _, _)
\* The digits 1..i of floor(a / k), r being the remainder of the digits above.
BDivAt(a, k, i, r) ==
    IF i = 0 THEN <<>>
    ELSE BDivAt(a, k, i - 1, ((r * Base) + a[i]) % k) \o <<((r * Base) + a[i]) \div k>>

\* floor(a / k), for 0 < k <= 2^15.
BDivSmall(a, k) == BTrim(BDivAt(a, k, Len(a), 0))

\* a * 2^n
BShl(a, n) == ShiftLimbs(BMulSmall(a, Pow2(n % LimbBits)), n \div LimbBits)

\* floor(a / 2^n)
BShr(a, n) == BDivSmall(DropLimbs(a, n \div LimbBits), Pow2(n % LimbBits))

\* The n lowest bits of a are zero.
LowZero(a, n) ==
    /\ \A i \in 1..Min(n \div LimbBits, Len(a)) : a[i] = 0
    /\ (n \div LimbBits) >= Len(a) \/ (a[(n \div LimbBits) + 1] % Pow2(n % LimbBits)) = 0

\* Bit i of a, bit 0 being the lowest.
Bit(a, i) ==
    IF (i \div LimbBits) >= Len(a) THEN 0
    ELSE (a[(i \div LimbBits) + 1] \div Pow2(i % LimbBits)) % 2

\* Number of bits of a (0 for 0).
BitLen(a) ==
    IF a = <<>> THEN 0
    ELSE (LimbBits * (Len(a) - 1))
         + (CHOOSE d \in 1..LimbBits : Pow2(d - 1) <= a[Len(a)] /\ a[Len(a)] < Pow2(d))

\* The natural a, of a single digit, as an integer.
ToInt(a) == Hd(a)

RECURSIVE BDivStep(_, _, _, _)
\* Bit i of the quotient, from d = b * 2^i: the long division goes on.
BDivBit(r, b, i, q, d) ==
    IF BCmp(r, d) >= 0
    THEN BDivStep(BSub(r, d), b, i - 1, BAddC(BMulSmall(q, 2), <<>>, 1))
    ELSE BDivStep(r, b, i - 1, BMulSmall(q, 2))

\* Long division, bit i of the quotient being the next: [q, r].
BDivStep(r, b, i, q) ==
    IF i < 0 \/ Len(q) < 0 THEN [q |-> q, r |-> r] ELSE BDivBit(r, b, i, q, BShl(b, i))

\* [q, r] from q = floor(a / k), for a divisor k of one digit.
BDivOne(a, k, q) == [q |-> q, r |-> BSub(a, BMulSmall(q, k))]

\* [q |-> floor(a / b), r |-> a mod b], for b > 0.
BDivMod(a, b) ==
    IF Len(b) = 1 THEN BDivOne(a, b[1], BDivSmall(a, b[1]))
    ELSE BDivStep(a, b, Max(0, BitLen(a) - BitLen(b)), <<>>)

RECURSIVE LowBits(_)
\* Number of zero bits below the lowest one bit of a > 0.
LowBits(a) ==
    IF a[1] = 0 THEN LimbBits + LowBits(Tail(a))
    ELSE CHOOSE t \in 0..(LimbBits - 1) : (a[1] % Pow2(t + 1)) = Pow2(t)

(***************************************************************************)
(* Floats.                                                                 *)
(***************************************************************************)
NaN(s) == [k |-> "nan", s |-> s, m |-> <<>>, e |-> 0]

Inf(s) == [k |-> "inf", s |-> s, m |-> <<>>, e |-> 0]

Zero(s) == [k |-> "fin", s |-> s, m |-> <<>>, e |-> MinExp]

IsNaN(a) == a.k = "nan"

IsInf(a) == a.k = "inf"

IsFin(a) == a.k = "fin"

IsZero(a) == a.k = "fin" /\ a.m = <<>>

\* The finite float (-1)^s * m * 2^e, or the infinity when it exceeds the range.
\* [v: the float, exact: nothing was rounded away, ovf: the range was exceeded]
Ranged(s, m, e, exact) ==
    IF e > MaxExp THEN [v |-> Inf(s), exact |-> FALSE, ovf |-> TRUE]
    ELSE IF m = <<>> THEN [v |-> Zero(s), exact |-> exact, ovf |-> FALSE]
    ELSE [v |-> [k |-> "fin", s |-> s, m |-> m, e |-> e], exact |-> exact, ovf |-> FALSE]

\* q * 2^e after rounding: a significand of Precision + 1 bits is renormalised.
Carried(s, q, e, exact) ==
    IF BitLen(q) > Precision THEN Ranged(s, BShr(q, 1), e + 1, exact)
    ELSE Ranged(s, q, e, exact)

\* Rounding to nearest, ties to even: q the bits kept, half the first bit
\* dropped, rest whether anything lies below it.
RoundHalfEven(s, q, half, rest, e) ==
    Carried(s, IF half = 1 /\ (rest \/ Bit(q, 0) = 1) THEN BAddC(q, <<>>, 1) ELSE q,
            e, half = 0 /\ ~rest)

\* Rnd, with k the number of bits of n that the result cannot hold.
RndDrop(s, n, e, sticky, k) ==
    IF n = <<>> THEN [v |-> Zero(s), exact |-> ~sticky, ovf |-> FALSE]
    ELSE IF k <= 0 THEN Ranged(s, BShl(n, -k), e + k, ~sticky)
    ELSE RoundHalfEven(s, BShr(n, k), Bit(n, k - 1), sticky \/ ~LowZero(n, k - 1), e + k)

\* Rounding of the exact value (-1)^s * (n + t) * 2^e, with 0 < t < 1 when
\* sticky and t = 0 otherwise, to the nearest float, ties to even.
Rnd(s, n, e, sticky) ==
    RndDrop(s, n, e, sticky, Max(e + BitLen(n) - Precision, MinExp) - e)

\* The quotient dm.q and remainder dm.r of a division, as the float nearest
\* to (-1)^s * (dm.q + dm.r / d) * 2^e (sticky: the quotient is inexact anyway).
RndDivMod(s, dm, e, sticky) == Rnd(s, dm.q, e, sticky \/ dm.r # <<>>)

\* The float nearest to (-1)^s * (n / d) * 2^e, computed from the quotient
\* floor(n * 2^k / d); n, d > 0; sticky when d is cut.  First for an odd d.
RndQuotOdd(s, n, d, k, e, sticky) == RndDivMod(s, BDivMod(BShl(n, k), d), e - k, sticky)

\* The same from d = (d / 2^t) * 2^t, t being the number of low zero bits of d.
RndQuotBy(s, n, d, k, e, sticky, t) == RndQuotOdd(s, n, BShr(d, t), Max(k - t, 0), e - t, sticky)

RndQuot(s, n, d, k, e, sticky) == RndQuotBy(s, n, d, k, e, sticky, LowBits(d))

\* Digits kept of a power of five.
PowLimbs == 12

\* The natural a cut to its PowLimbs leading digits: [m, x, exact] with
\* m * 2^x <= a < (m + 1) * 2^x, and exact when m * 2^x = a.
Cut(a, x, exact) ==
    IF Len(a) <= PowLimbs THEN [m |-> a, x |-> x, exact |-> exact]
    ELSE [m |-> DropLimbs(a, Len(a) - PowLimbs), x |-> x + (LimbBits * (Len(a) - PowLimbs)),
          exact |-> exact /\ LowZero(a, LimbBits * (Len(a) - PowLimbs))]

\* p * p and 5 * p * p, cut.
CutSquare(p) == Cut(BMul(p.m, p.m), 2 * p.x, p.exact)

CutSquare5(p) == Cut(BMulSmall(BMul(p.m, p.m), 5), 2 * p.x, p.exact)

RECURSIVE Pow5(_)
\* 5^n, cut: exact up to 5^77, and below 5^n by less than 2^-150 of it otherwise.
Pow5(n) ==
    IF n = 0 THEN [m |-> <<1>>, x |-> 0, exact |-> TRUE]
    ELSE IF (n % 2) = 0 THEN CutSquare(Pow5(n \div 2))
    ELSE CutSquare5(Pow5(n \div 2))

\* The float nearest to (-1)^s * n * 10^e, p being 5^|e|.
Scaled(s, n, e, p) ==
    IF n = <<>> THEN Zero(s)
    ELSE IF e >= 0 THEN Rnd(s, BMul(n, p.m), p.x + e, ~p.exact).v
    ELSE RndQuot(s, n, p.m, Precision + 3 + BitLen(p.m) - BitLen(n), e - p.x, ~p.exact).v

\* The float nearest to the decimal literal n * 10^e (float("-52.9") is
\* F(-529, -1)); the infinity when the literal exceeds the range.
F(n, e) == Scaled(IF n < 0 THEN 1 ELSE 0, FromInt(Abs(n)), e, Pow5(Abs(e)))

\* The negative zero -0.0.
NegZero == Zero(1)

\* The NaN of an invalid operation (inf - inf, 0 * inf, inf / inf): on x86-64
\* its sign bit is set.  A NaN operand is returned as it is.
InvalidNaN == NaN(1)

\* An operation on two NaNs returns the operand the machine instruction takes
\* first.  For - and / that is the left one.  + and * are commutative, and
\* the machine code may take either operand first; the interpreter has
\* several pieces of code for a + or a * (the general one, and the ones that
\* replace it in a function that has been called often), so which operand
\* they return is a state of the interpreter: nanop, "left" or "right".
VARIABLE nanop

NanOps == {"left", "right"}

\* The operand a + or a * returns at present for the NaNs a and b.
NaNOperand(a, b) == IF nanop = "left" THEN a ELSE b

\* -a
FNeg(a) == [a EXCEPT !.s = 1 - a.s]

\* abs(a)
FAbs(a) == [a EXCEPT !.s = 0]

\* math.copysign(a, b): a with the sign bit of b (a NaN b has a sign bit too).
CopySign(a, b) == [a EXCEPT !.s = b.s]

\* The sum of the finite non-zero hi and lo, hi.e >= lo.e, from A = hi.m * 2^(hi.e - lo.e).
AddAligned(hi, lo, A) ==
    IF hi.s = lo.s THEN Rnd(hi.s, BAdd(A, lo.m), lo.e, FALSE)
    ELSE IF BCmp(A, lo.m) = 0 THEN [v |-> Zero(0), exact |-> TRUE, ovf |-> FALSE]
    ELSE IF BCmp(A, lo.m) > 0 THEN Rnd(hi.s, BSub(A, lo.m), lo.e, FALSE)
    ELSE Rnd(lo.s, BSub(lo.m, A), lo.e, FALSE)

\* The sum of the finite non-zero hi and lo, hi.e >= lo.e.
AddOrdered(hi, lo) ==
    IF hi.e - lo.e > 64
    THEN \* lo is below 2^-11 of the last bit of hi, and only makes the sum inexact
         Rnd(hi.s, IF hi.s = lo.s THEN BShl(hi.m, 64) ELSE BSub(BShl(hi.m, 64), <<1>>),
             hi.e - 64, TRUE)
    ELSE AddAligned(hi, lo, BShl(hi.m, hi.e - lo.e))

\* a + b with its rounding flags.
AddR(a, b) ==
    IF IsNaN(a) /\ IsNaN(b) THEN [v |-> NaNOperand(a, b), exact |-> TRUE, ovf |-> FALSE]
    ELSE IF IsNaN(a) THEN [v |-> a, exact |-> TRUE, ovf |-> FALSE]
    ELSE IF IsNaN(b) THEN [v |-> b, exact |-> TRUE, ovf |-> FALSE]
    ELSE IF IsInf(a) /\ IsInf(b)
    THEN [v |-> IF a.s = b.s THEN a ELSE InvalidNaN, exact |-> TRUE, ovf |-> FALSE]
    ELSE IF IsInf(a) THEN [v |-> a, exact |-> TRUE, ovf |-> FALSE]
    ELSE IF IsInf(b) THEN [v |-> b, exact |-> TRUE, ovf |-> FALSE]
    ELSE IF IsZero(a) /\ IsZero(b)
    THEN [v |-> Zero(IF a.s = 1 /\ b.s = 1 THEN 1 ELSE 0), exact |-> TRUE, ovf |-> FALSE]
    ELSE IF IsZero(a) THEN [v |-> b, exact |-> TRUE, ovf |-> FALSE]
    ELSE IF IsZero(b) THEN [v |-> a, exact |-> TRUE, ovf |-> FALSE]
    ELSE IF a.e >= b.e THEN AddOrdered(a, b)
    ELSE AddOrdered(b, a)

\* a + b
FAdd(a, b) == AddR(a, b).v

\* a - b: a NaN operand is returned with its own sign, the left one first.
FSub(a, b) ==
    IF IsNaN(a) THEN a
    ELSE IF IsNaN(b) THEN b
    ELSE AddR(a, FNeg(b)).v

\* a * b
FMul(a, b) ==
    IF IsNaN(a) /\ IsNaN(b) THEN NaNOperand(a, b)
    ELSE IF IsNaN(a) THEN a
    ELSE IF IsNaN(b) THEN b
    ELSE IF IsInf(a) \/ IsInf(b)
    THEN IF IsZero(a) \/ IsZero(b) THEN InvalidNaN ELSE Inf(IF a.s = b.s THEN 0 ELSE 1)
    ELSE IF IsZero(a) \/ IsZero(b) THEN Zero(IF a.s = b.s THEN 0 ELSE 1)
    ELSE Rnd(IF a.s = b.s THEN 0 ELSE 1, BMul(a.m, b.m), a.e + b.e, FALSE).v

\* a / b for a divisor that is not zero (the source divides by the literals
\* 100.0, 10.0 and 1000.0 only).
FDiv(a, b) ==
    IF IsNaN(a) THEN a
    ELSE IF IsNaN(b) THEN b
    ELSE IF IsInf(a) THEN (IF IsInf(b) THEN InvalidNaN ELSE Inf(IF a.s = b.s THEN 0 ELSE 1))
    ELSE IF IsInf(b) \/ IsZero(a) THEN Zero(IF a.s = b.s THEN 0 ELSE 1)
    ELSE RndQuot(IF a.s = b.s THEN 0 ELSE 1, a.m, b.m,
                 Precision + 3 + BitLen(b.m) - BitLen(a.m), a.e - b.e, FALSE).v

\* (e, m) orders the non-negative finite floats.
MagLt(a, b) == a.e < b.e \/ (a.e = b.e /\ BCmp(a.m, b.m) < 0)

\* a < b; every comparison with a NaN is false, and -0.0 = 0.0.
FLt(a, b) ==
    IF IsNaN(a) \/ IsNaN(b) THEN FALSE
    ELSE IF IsZero(a) /\ IsZero(b) THEN FALSE
    ELSE IF IsInf(a) THEN a.s = 1 /\ ~(IsInf(b) /\ b.s = 1)
    ELSE IF IsInf(b) THEN b.s = 0
    ELSE IF a.s # b.s THEN a.s = 1
    ELSE IF a.s = 0 THEN MagLt(a, b) ELSE MagLt(b, a)

\* a > b
FGt(a, b) == FLt(b, a)

\* a == b
FEq(a, b) == ~IsNaN(a) /\ ~IsNaN(b) /\ ~FLt(a, b) /\ ~FLt(b, a)

\* a <= b
FLe(a, b) == FLt(a, b) \/ FEq(a, b)

\* A variant of the truth test that compares representations, so that -0.0
\* counts as true.
TruthyBits(a) == a # Zero(0)

\* bool(a): a != 0.0 (a NaN is true).
Truthy(a) == ~IsZero(a)

\* The float a is an integer, and an odd one.
IsInteger(a) == IsFin(a) /\ (a.e >= 0 \/ LowZero(a.m, -a.e))

IsOdd(a) == IsFin(a) /\ a.e <= 0 /\ LowZero(a.m, -a.e) /\ Bit(a.m, -a.e) = 1

(***************************************************************************)
(* The math library: math.exp, math.log10 and float ** float.  Their       *)
(* special values and exceptions are CPython's.  Their values come from    *)
(* the C library's exp, log and pow, which are accurate to the last place  *)
(* but not correctly rounded: the float returned is the nearest one to a   *)
(* value that lies within 2^-LibBits of a unit in the last place of the    *)
(* exact value, so where the exact value is that close to the middle of    *)
(* two floats, either of them may be returned.  Which one is a fixed       *)
(* property of the library, which is a function: the same argument always  *)
(* gives the same value.  libm holds what the calls made so far have shown *)
(* of it: libm.exp, libm.log and libm.pow give, for the arguments at which *)
(* a function was evaluated and could return either float, the side (-1 or *)
(* 1) on which its value errs there.  The exact values are computed in     *)
(* fixed point with FixBits binary places.                                 *)
(***************************************************************************)
VARIABLE libm

LibBits == 5

\* A library of which nothing is known yet.
NoSides == [x \in {} |-> -1]

NoLibm == [exp |-> NoSides, log |-> NoSides, pow |-> NoSides]

\* The side on which a function with the known sides f errs at x (where it
\* has one value only, the side does not matter).
Side(f, x) == IF x \in DOMAIN f THEN f[x] ELSE -1

\* f with the side at x.
WithSide(f, x, d) == [y \in DOMAIN f \cup {x} |-> IF y = x THEN d ELSE f[y]]

\* The sides an evaluation at x can show of a function with the known sides
\* f, lo and hi being its values there for the two sides: the known one, or
\* either when none is known and the values differ.
Sides(f, x, lo, hi) ==
    IF x \in DOMAIN f THEN {f[x]} ELSE IF lo = hi THEN {-1} ELSE {-1, 1}

\* What is known of the function once it has shown the side d at x.
Shown(f, x, d, lo, hi) == IF x \in DOMAIN f \/ lo = hi THEN f ELSE WithSide(f, x, d)

\* The value on side d.
Sided(d, lo, hi) == IF d = 1 THEN hi ELSE lo

\* n with 2^-LibBits of a unit in the last place added (dir = 1) or taken
\* away (dir = -1), k being the number of bits of n that the result cannot hold.
LibErr(n, dir, k) ==
    IF k <= LibBits THEN n
    ELSE IF dir = 1 THEN BAdd(n, BShl(<<1>>, k - LibBits))
    ELSE IF BitLen(n) <= k - LibBits THEN <<>>
    ELSE BSub(n, BShl(<<1>>, k - LibBits))

\* The float a library function returns for the exact value (-1)^s * (n + t) * 2^e,
\* 0 < t < 1 (for n = 0: the zero).
LibRnd(s, n, e, dir) ==
    IF n = <<>> THEN Rnd(s, n, e, FALSE)
    ELSE Rnd(s, LibErr(n, dir, Max(e + BitLen(n) - Precision, MinExp) - e), e, TRUE)
FixLimbs == 8

FixBits == LimbBits * FixLimbs

\* 1.0 in fixed point.
One == ShiftLimbs(<<1>>, FixLimbs)

\* floor(x * y) in fixed point.
FixMul(x, y) == DropLimbs(BMul(x, y), FixLimbs)

\* ln 2, ln(1 + j/16) for j = 0..15 and ln(1 + j/256) for j = 0..16.
Ln2 == <<29430, 12295, 3790, 24143, 30618, 31289, 1533, 22713>>

LnTab16 ==
    <<<<>>,
      <<6520, 28395, 4834, 1523, 5427, 278, 17944, 1986>>,
      <<7701, 17405, 8191, 20308, 11870, 17758, 16859, 3859>>,
      <<18293, 7300, 4176, 1854, 31353, 10724, 6200, 5631>>,
      <<29508, 19454, 16631, 16989, 17461, 26278, 31715, 7311>>,
      <<2946, 2103, 32087, 29592, 896, 21971, 23723, 8910>>,
      <<19728, 6627, 13179, 8559, 12447, 3631, 3010, 10435>>,
      <<15845, 22175, 17727, 7241, 423, 24040, 22518, 11891>>,
      <<18566, 31234, 22374, 22225, 4860, 24524, 9196, 13286>>,
      <<26249, 6141, 495, 1211, 2155, 19789, 30663, 14623>>,
      <<22364, 6375, 15121, 27536, 15148, 22403, 3935, 15909>>,
      <<26267, 15871, 30566, 9765, 16731, 9514, 26056, 17145>>,
      <<13810, 15932, 13502, 31510, 26654, 28736, 16060, 18337>>,
      <<19950, 22125, 5182, 28004, 24335, 20240, 11878, 19487>>,
      <<15306, 17921, 6238, 6447, 22322, 18034, 8144, 20598>>,
      <<11943, 23343, 5602, 7666, 21879, 23493, 23116, 21672>>>>

LnTab256 ==
    <<<<>>,
      <<27227, 27060, 3434, 4738, 1504, 8881, 24597, 127>>,
      <<17026, 29243, 23104, 32283, 26504, 22048, 169, 255>>,
      <<14285, 5648, 2424, 23845, 5357, 32260, 25146, 381>>,
      <<22442, 13534, 27962, 20382, 1991, 17392, 1349, 508>>,
      <<30988, 27234, 9583, 24169, 5587, 6709, 27204, 633>>,
      <<28679, 14517, 30028, 21071, 17514, 16045, 4528, 759>>,
      <<31110, 11334, 26039, 30632, 18015, 15740, 31746, 883>>,
      <<8863, 25566, 31763, 6641, 19457, 29633, 10672, 1008>>,
      <<32386, 2678, 24025, 2856, 19454, 4669, 6961, 1132>>,
      <<2674, 10937, 13888, 9221, 27389, 8171, 20727, 1255>>,
      <<7091, 18258, 7845, 12714, 9892, 31886, 19317, 1378>>,
      <<11286, 28234, 25923, 6355, 26594, 25389, 2846, 1501>>,
      <<25392, 18479, 29698, 30112, 8027, 27790, 4193, 1623>>,
      <<26345, 23030, 10639, 2612, 3574, 4503, 23470, 1744>>,
      <<9102, 22525, 2660, 18319, 23184, 11696, 28017, 1865>>,
      <<6520, 28395, 4834, 1523, 5427, 278, 17944, 1986>>>>

RECURSIVE ExpSeries(_, _, _, _)
\* acc + term + term * t / n + term * t^2 / (n (n + 1)) + ...
ExpSeries(t, term, n, acc) ==
    IF term = <<>> \/ Len(acc) < 0 THEN acc
    ELSE ExpSeries(t, BDivSmall(FixMul(term, t), n), n + 1, BAdd(acc, term))

RECURSIVE Squared(_, _)
\* x^(2^n)
Squared(x, n) == IF n = 0 THEN x ELSE Squared(FixMul(x, x), n - 1)

\* e^r for 0 <= r <= ln 2: (e^(r/16))^16.
ExpReduced(r) == Squared(ExpSeries(BShr(r, 4), One, 1, <<>>), 4)

\* A result r of Rnd as the result of a math function: OverflowError when the
\* range was exceeded.
Ranging(r) ==
    IF r.ovf THEN [v |-> Inf(0), exc |-> "OverflowError"] ELSE [v |-> r.v, exc |-> "none"]

\* e^y from y = +-(dm.q * ln 2 + dm.r), as a library erring on side dir returns it.
ExpParts(neg, dm, dir) ==
    IF neg
    THEN Ranging(LibRnd(0, ExpReduced(BSub(Ln2, dm.r)), -ToInt(dm.q) - 1 - FixBits, dir))
    ELSE Ranging(LibRnd(0, ExpReduced(dm.r), ToInt(dm.q) - FixBits, dir))

\* e^y for y = +-Y / 2^FixBits, Y < 2^(FixBits + 12): [v, exc].
ExpFix(neg, Y, dir) == ExpParts(neg, BDivMod(Y, Ln2), dir)

\* |a| in fixed point, rounded down, for a finite a.
ToFix(a) == IF a.e + FixBits >= 0 THEN BShl(a.m, a.e + FixBits) ELSE BShr(a.m, -(a.e + FixBits))

\* math.exp(a) of a library erring on side dir at a: OverflowError when the
\* result exceeds the largest float, 0.0 (or a subnormal) when it underflows.
ExpAt(a, dir) ==
    IF IsNaN(a) THEN [v |-> a, exc |-> "none"]
    ELSE IF IsInf(a) THEN [v |-> IF a.s = 0 THEN a ELSE Zero(0), exc |-> "none"]
    ELSE IF IsZero(a) THEN [v |-> F(1, 0), exc |-> "none"]
    ELSE IF a.e + BitLen(a.m) > 11
    THEN \* |a| >= 2048
         IF a.s = 0 THEN [v |-> Inf(0), exc |-> "OverflowError"] ELSE [v |-> Zero(0), exc |-> "none"]
    ELSE ExpFix(a.s = 1, ToFix(a), dir)

\* math.exp(a) of the library l, and of the library in use.
ExpIn(l, a) == ExpAt(a, Side(l.exp, a))

Exp(a) == ExpIn(libm, a)

RECURSIVE LnSeries(_, _, _, _, _)
\* [pos, neg]: the sums of the positive and of the negative terms of
\* u - u^2/2 + u^3/3 - ..., from the term of pw = u^n on.
LnSeries(u, pw, n, pos, neg) ==
    IF pw = <<>> \/ Len(pos) + Len(neg) < 0 THEN [pos |-> pos, neg |-> neg]
    ELSE IF (n % 2) = 1 THEN LnSeries(u, FixMul(pw, u), n + 1, BAdd(pos, BDivSmall(pw, n)), neg)
    ELSE LnSeries(u, FixMul(pw, u), n + 1, pos, BAdd(neg, BDivSmall(pw, n)))

\* base + pos - neg
LnSmall(base, sr) == BSub(BAdd(base, sr.pos), sr.neg)

\* base + ln(1 + u) for 0 <= u < 1/256.
LnOfU(base, u) == LnSmall(base, LnSeries(u, u, 1, <<>>, <<>>))

\* ln t + base for 1 <= t < 1 + 1/16, j = floor((t - 1) * 256).
LnStep2(t, j, base) ==
    LnOfU(BAdd(base, LnTab256[j + 1]), BSub(BDivSmall(BMulSmall(t, 256), 256 + j), One))

\* ln t + base for 1 <= t < 1 + 1/16.
LnStep1(t, base) == LnStep2(t, ToInt(BShr(t, FixBits - 8)) - 256, base)

\* ln f for 1 <= f < 2, j = floor((f - 1) * 16).
LnMantOf(f, j) == LnStep1(BDivSmall(BMulSmall(f, 16), 16 + j), LnTab16[j + 1])

LnMant(f) == LnMantOf(f, ToInt(BShr(f, FixBits - 4)) - 16)

\* [neg, L]: ln(f * 2^E) = +-L from lf = ln f.
LnSum(E, lf) ==
    IF E >= 0 THEN [neg |-> FALSE, L |-> BAdd(BMulSmall(Ln2, E), lf)]
    ELSE [neg |-> TRUE, L |-> BSub(BMulSmall(Ln2, -E), lf)]

\* [neg, L]: the natural logarithm +-L of the finite float a > 0, in fixed point.
LnFix(a) ==
    LnSum(a.e + BitLen(a.m) - 1, LnMant(BShl(a.m, FixBits - (BitLen(a.m) - 1))))

\* The C library's log of the finite float a > 0, erring on side dir.
LnRound(ln, dir) == LibRnd(IF ln.neg THEN 1 ELSE 0, ln.L, -FixBits, dir).v

Ln(a, dir) == LnRound(LnFix(a), dir)

\* The constants of the C library's log10: 1 / ln 10 (0x1.bcb7b1526e50ep-2), and
\* log10(2) in two parts (0x1.34413509f6000p-2 and 0x1.9fef311f12b36p-42).
ivln10 == [k |-> "fin", s |-> 0, m |-> <<25870, 10829, 11756, 222>>, e |-> -54]

log10_2hi == [k |-> "fin", s |-> 0, m |-> <<24576, 8510, 4173, 154>>, e |-> -54]

log10_2lo == [k |-> "fin", s |-> 0, m |-> <<11062, 9186, 31692, 207>>, e |-> -94]

\* log10 of x * 2^y as the C library computes it from the float lx = ln x:
\* (y * log10_2lo + ivln10 * lx) + y * log10_2hi.
Log10Sum(y, lx) == FAdd(FAdd(FMul(y, log10_2lo), FMul(ivln10, lx)), FMul(y, log10_2hi))

\* log10 of the finite float a > 0 with k = floor(log2(a)): a = x * 2^y with
\* 1 <= x < 2 when k >= 0 and 1/2 <= x < 1 when k < 0.
Log10Of(a, k, dir) ==
    IF k >= 0 THEN Log10Sum(F(k, 0), Ln([a EXCEPT !.m = BShl(a.m, Precision - BitLen(a.m)),
                                                  !.e = 1 - Precision], dir))
    ELSE Log10Sum(F(k + 1, 0), Ln([a EXCEPT !.m = BShl(a.m, Precision - BitLen(a.m)),
                                            !.e = -Precision], dir))

\* math.log10(a) of a library whose log errs on side dir for a: [v: the
\* value, exc: the exception raised, or "none"].
Log10At(a, dir) ==
    IF IsNaN(a) THEN [v |-> a, exc |-> "none"]
    ELSE IF IsZero(a) \/ a.s = 1 THEN [v |-> InvalidNaN, exc |-> "ValueError"]
    ELSE IF IsInf(a) THEN [v |-> a, exc |-> "none"]
    ELSE [v |-> Log10Of(a, a.e + BitLen(a.m) - 1, dir), exc |-> "none"]

\* math.log10(a) of the library l, and of the library in use.
Log10In(l, a) == Log10At(a, Side(l.log, a))

Log10(a) == Log10In(libm, a)

\* e^(+-P * 2^e / 2^FixBits), P * 2^e being the product of |b| and |ln a|.
PowProd(neg, P, e, dir) ==
    IF BitLen(P) + e - FixBits > 12
    THEN (IF neg THEN [v |-> Zero(0), exc |-> "none"] ELSE [v |-> Inf(0), exc |-> "OverflowError"])
    ELSE ExpFix(neg, IF e >= 0 THEN BShl(P, e) ELSE BShr(P, -e), dir)

\* a ** b from the logarithm ln of a.
PowFix(b, ln, dir) == PowProd(ln.neg # (b.s = 1), BMul(b.m, ln.L), b.e, dir)

\* The complex power of a negative base, from r, the power of its magnitude:
\* OverflowError when that exceeds the range.
Complex(r) == IF r.exc = "OverflowError" THEN r ELSE [v |-> InvalidNaN, exc |-> "complex"]

\* r, negated when neg.
Negated(r, neg) == IF neg THEN [r EXCEPT !.v = FNeg(r.v)] ELSE r

\* a ** b: [v, exc].  ZeroDivisionError for 0.0 to a negative power,
\* OverflowError when the result exceeds the largest float.  A negative base
\* with an exponent that is not an integer gives a complex number in Python
\* (exc is then "complex") or an OverflowError; the base of the source is a
\* result of math.exp, which is never negative.  dir is the side on which the
\* library's pow errs for a and b.
PowAt(a, b, dir) ==
    IF IsZero(b) THEN [v |-> F(1, 0), exc |-> "none"]
    ELSE IF IsNaN(a) THEN [v |-> a, exc |-> "none"]
    ELSE IF IsNaN(b) THEN [v |-> IF a = F(1, 0) THEN a ELSE b, exc |-> "none"]
    ELSE IF IsInf(b)
    THEN [v |-> IF FAbs(a) = F(1, 0) THEN F(1, 0)
                ELSE IF (b.s = 0) = FGt(FAbs(a), F(1, 0)) THEN Inf(0) ELSE Zero(0),
          exc |-> "none"]
    ELSE IF IsInf(a)
    THEN [v |-> IF b.s = 0 THEN (IF IsOdd(b) THEN a ELSE Inf(0))
                ELSE (IF IsOdd(b) THEN Zero(a.s) ELSE Zero(0)),
          exc |-> "none"]
    ELSE IF IsZero(a)
    THEN IF b.s = 1 THEN [v |-> InvalidNaN, exc |-> "ZeroDivisionError"]
         ELSE [v |-> IF IsOdd(b) THEN a ELSE Zero(0), exc |-> "none"]
    ELSE IF a.s = 1 /\ ~IsInteger(b) THEN Complex(PowFix(b, LnFix(FAbs(a)), dir))
    ELSE IF FAbs(a) = F(1, 0)
    THEN [v |-> IF a.s = 1 /\ IsOdd(b) THEN F(-1, 0) ELSE F(1, 0), exc |-> "none"]
    ELSE Negated(PowFix(b, LnFix(FAbs(a)), dir), a.s = 1 /\ IsOdd(b))

\* a ** b with the library l, and with the library in use.
PowIn(l, a, b) == PowAt(a, b, Side(l.pow, <<a, b>>))

Pow(a, b) == PowIn(libm, a, b)

(***************************************************************************)
(* settings.py: the default coefficient record.                            *)
(***************************************************************************)
Skytemp ==
    [K1 |-> F(33, 0), K2 |-> F(0, 0), K3 |-> F(0, 0), K4 |-> F(0, 0),
     K5 |-> F(0, 0), K6 |-> F(140, 0), K7 |-> F(40, 0)]

(***************************************************************************)
(* sky_temperature.py: _td, tsky, CloudState, classify_cloud_state.        *)
(* A computation that can raise yields [v, exc, calls]: its value, the     *)
(* exception that ended it ("none" when it returned) and the math          *)
(* functions it evaluated.                                                 *)
(***************************************************************************)

\* A local that is not bound yet, and the value of a call that raised.
Unbound == [k |-> "unbound", s |-> 0, m |-> <<>>, e |-> 0]

\* line 47: term1 = (c.K1 / 100.0) * (ta - c.K2 / 10.0)
term1(ta, c) == FMul(FDiv(c.K1, F(100, 0)), FSub(ta, FDiv(c.K2, F(10, 0))))

\* line 52: (c.K3 / 100.0) * pw, with pw the result of the power.
term2_mul(c, pw) ==
    IF pw.exc = "OverflowError" THEN [v |-> Zero(0), exc |-> "none", calls |-> {"exp", "pow"}]
    ELSE IF pw.exc # "none" THEN [v |-> pw.v, exc |-> pw.exc, calls |-> {"exp", "pow"}]
    ELSE [v |-> FMul(FDiv(c.K3, F(100, 0)), pw.v), exc |-> "none", calls |-> {"exp", "pow"}]

\* line 52: the argument of math.exp and the exponent of the power.
term2_arg(ta, c) == FMul(FDiv(c.K4, F(1000, 0)), ta)

term2_exponent(c) == FDiv(c.K5, F(100, 0))

\* line 52: (math.exp(...)) ** (c.K5 / 100.0), with ex the result of math.exp
\* and pw the result of the power, which is evaluated when math.exp returned.
term2_pow(c, ex, pw) ==
    IF ex.exc = "OverflowError" THEN [v |-> Zero(0), exc |-> "none", calls |-> {"exp"}]
    ELSE term2_mul(c, pw)

\* line 52 with the library l, ex being the result of math.exp.
term2_lib(l, c, ex) == term2_pow(c, ex, PowIn(l, ex.v, term2_exponent(c)))

\* lines 49-54 with the library l: term2, 0.0 unless c.K3 is true; an
\* OverflowError of math.exp or of ** is caught and gives 0.0, any other
\* exception propagates.
term2_in(l, ta, c) ==
    IF ~Truthy(c.K3) THEN [v |-> Zero(0), exc |-> "none", calls |-> {}]
    ELSE term2_lib(l, c, ExpIn(l, term2_arg(ta, c)))

\* lines 49-54
term2(ta, c) == term2_in(libm, ta, c)

\* line 56: delta = abs(c.K2 / 10.0 - ta)
delta(ta, c) == FAbs(FSub(FDiv(c.K2, F(10, 0)), ta))

\* A variant of the logarithmic formula that leaves out the K7 / 100 offset.
t67_log_no_k7(ta, c, lg) ==
    [v |-> FMul(FMul(FDiv(c.K6, F(10, 0)), CopySign(F(1, 0), FSub(ta, FDiv(c.K2, F(10, 0))))),
                lg.v),
     exc |-> lg.exc, calls |-> {"copysign", "log10"}]

\* lines 60-62: the logarithmic formula, with lg the result of math.log10(delta).
t67_log(ta, c, lg) ==
    [v |-> FMul(FMul(FDiv(c.K6, F(10, 0)), CopySign(F(1, 0), FSub(ta, FDiv(c.K2, F(10, 0))))),
                FAdd(lg.v, FDiv(c.K7, F(100, 0)))),
     exc |-> lg.exc, calls |-> {"copysign", "log10"}]

\* A variant of the branch that takes the near-field form for delta <= 1.
t67_of_inclusive(ta, c, d, lg) ==
    IF FLe(d, F(1, 0))
    THEN [v |-> CopySign(d, c.K6), exc |-> "none", calls |-> {"copysign"}]
    ELSE [v |-> FMul(FMul(FDiv(c.K6, F(10, 0)),
                          CopySign(F(1, 0), FSub(ta, FDiv(c.K2, F(10, 0))))),
                     FAdd(lg.v, FDiv(c.K7, F(100, 0)))),
          exc |-> lg.exc, calls |-> {"copysign", "log10"}]

\* lines 57-62, with d the value of delta and lg the result of math.log10(d),
\* which is evaluated in the second branch only.
t67_of(ta, c, d, lg) ==
    IF FLt(d, F(1, 0))
    THEN [v |-> CopySign(d, c.K6), exc |-> "none", calls |-> {"copysign"}]
    ELSE t67_log(ta, c, lg)

\* lines 57-62: t67, copysign(delta, K6) near the centre and the logarithmic
\* formula otherwise (also when delta is a NaN: delta < 1 is then false).
t67(ta, c) == t67_of(ta, c, delta(ta, c), Log10(delta(ta, c)))

\* line 64: return term1 + term2 + t67
td_sum(a, b, c) == FAdd(FAdd(a, b), c)

\* line 64, with t2 and t3 the results of term2 and t67.
td_of(ta, c, t2, t3) ==
    IF t2.exc # "none" THEN [v |-> Unbound, exc |-> t2.exc, calls |-> t2.calls]
    ELSE IF t3.exc # "none"
    THEN [v |-> Unbound, exc |-> t3.exc, calls |-> t2.calls \cup t3.calls]
    ELSE [v |-> td_sum(term1(ta, c), t2.v, t3.v), exc |-> "none",
          calls |-> t2.calls \cup t3.calls]

\* lines 45-64: _td(ta, c)
_td(ta, c) == td_of(ta, c, term2(ta, c), t67(ta, c))

\* A variant of the subtraction with its operands exchanged.
tsky_sub_swapped(ts, d) == FSub(d, ts)

\* line 78: ts - _td(ta, coeffs)
tsky_sub(ts, d) == FSub(ts, d)

\* line 78, with d the result of _td.
tsky_of(ts, d) == [v |-> IF d.exc = "none" THEN tsky_sub(ts, d.v) ELSE Unbound, exc |-> d.exc]

\* lines 67-78: tsky(ts, ta, coeffs)
tsky(ts, ta, c) == tsky_of(ts, _td(ta, c))

\* lines 81-84: class CloudState(IntEnum)
CLEAR == 0

CLOUDY == 1

VERY_CLOUDY == 2

\* Variants of the classifier: an inclusive upper boundary, an inclusive lower
\* boundary, the two cloudy states exchanged, and the upper test made first.
classify_inclusive_cloudy(tsky_val, clear_limit, cloudy_limit) ==
    IF FLt(tsky_val, clear_limit) THEN CLEAR
    ELSE IF FLe(cloudy_limit, tsky_val) THEN VERY_CLOUDY
    ELSE CLOUDY

classify_inclusive_clear(tsky_val, clear_limit, cloudy_limit) ==
    IF FLe(tsky_val, clear_limit) THEN CLEAR
    ELSE IF FGt(tsky_val, cloudy_limit) THEN VERY_CLOUDY
    ELSE CLOUDY

classify_exchanged(tsky_val, clear_limit, cloudy_limit) ==
    IF FLt(tsky_val, clear_limit) THEN CLEAR
    ELSE IF FGt(tsky_val, cloudy_limit) THEN CLOUDY
    ELSE VERY_CLOUDY

classify_upper_first(tsky_val, clear_limit, cloudy_limit) ==
    IF FGt(tsky_val, cloudy_limit) THEN VERY_CLOUDY
    ELSE IF FLt(tsky_val, clear_limit) THEN CLEAR
    ELSE CLOUDY

\* lines 104-108: classify_cloud_state(tsky_val, clear_limit, cloudy_limit)
classify_cloud_state(tsky_val, clear_limit, cloudy_limit) ==
    IF FLt(tsky_val, clear_limit) THEN CLEAR
    ELSE IF FGt(tsky_val, cloudy_limit) THEN VERY_CLOUDY
    ELSE CLOUDY

\* lines 90-91: the default boundaries
DefaultClearLimit == F(-17, 0)

DefaultCloudyLimit == F(-8, 0)

(***************************************************************************)
(* The callers.  Each caller runs  T = tsky(ts, ta, coeffs)  and           *)
(* classify_cloud_state(T, clear_limit=..., cloudy_limit=...)  (lines      *)
(* 16-17, 124-126) against one shared coefficient object; a call is        *)
(* executed statement by statement, its locals in the caller's own frame.  *)
(***************************************************************************)

\* Number of concurrent callers.
NumCallers == 2

Callers == 1..NumCallers

NoFrame ==
    [ts |-> Unbound, ta |-> Unbound, term1 |-> Unbound, term2 |-> Unbound,
     delta |-> Unbound, t67 |-> Unbound, td |-> Unbound]

NoReturn == [v |-> Unbound, exc |-> "none"]

NoClass == [x |-> Unbound, clear_limit |-> Unbound, cloudy_limit |-> Unbound, state |-> -1]

\* Coefficient sets a caller may have loaded.
OverflowCoeffs == [Skytemp EXCEPT !.K3 = F(100, 0), !.K4 = F(1000, 0), !.K5 = F(-100, 0)]

UnitCoeffs == [Skytemp EXCEPT !.K3 = F(100, 0), !.K4 = F(100, 0), !.K5 = F(100, 0)]

RootCoeffs == [Skytemp EXCEPT !.K3 = F(100, 0), !.K4 = F(250, 0), !.K5 = F(50, 0)]

CoeffSets ==
    { Skytemp,
      [Skytemp EXCEPT !.K6 = F(-140, 0)],
      [Skytemp EXCEPT !.K6 = Zero(0)],
      [Skytemp EXCEPT !.K6 = NegZero],
      [Skytemp EXCEPT !.K2 = F(5, 0), !.K1 = F(-33, 0), !.K6 = F(-140, 0)],
      [Skytemp EXCEPT !.K2 = F(-19, 0)],
      OverflowCoeffs,
      [OverflowCoeffs EXCEPT !.K3 = Zero(0)],
      [OverflowCoeffs EXCEPT !.K3 = NegZero],
      [Skytemp EXCEPT !.K3 = F(100, 0), !.K4 = F(70000, 0), !.K5 = F(200, 0)],
      UnitCoeffs,
      RootCoeffs }

\* Readings and boundaries the callers pass.
TsInputs == {F(-30, 0), F(-5, 0), NaN(0)}

TaInputs ==
    {F(10, 0), F(0, 0), F(5, -1), F(-5, -1), F(-9, -1), F(1, 0), F(-800, 0), F(800, 0),
     Inf(0), NaN(0), NaN(1)}

\* The ambient readings passed with the coefficient set c: with some sets,
\* readings at which a library function can return either of two floats.
Readings(c) ==
    IF c = RootCoeffs THEN {F(106, -1), F(-5, -1)}
    ELSE IF c = UnitCoeffs THEN TaInputs \cup {F(-3622, -2)}
    ELSE IF c = Skytemp THEN TaInputs \cup {F(1366, -3)}
    ELSE TaInputs

XInputs == {F(-529, -1), F(-17, 0), F(-125, -1), F(-8, 0), F(-5, 0), F(0, 0), Inf(1), Inf(0), NaN(0)}

\* <<clear_limit, cloudy_limit>>: the defaults, other pairs, inverted pairs.
Limits ==
    { <<DefaultClearLimit, DefaultCloudyLimit>>, <<F(-8, 0), F(-8, 0)>>,
      <<F(-8, 0), F(-17, 0)>>, <<F(0, 0), F(-125, -1)>>,
      <<NaN(0), F(-8, 0)>>, <<F(-17, 0), NaN(0)>> }

\* The smaller sets of the concurrent callers: a call that returns a number,
\* one that raises (OverflowCoeffs, ta = -800) and one that returns a NaN.
ConcCoeffSets == {Skytemp, OverflowCoeffs}

ConcTsInputs == {F(-30, 0)}

ConcTaInputs == {F(10, 0), F(-800, 0), NaN(1)}

ConcLimits == {<<DefaultClearLimit, DefaultCloudyLimit>>}

VARIABLES
    loaded,   \* the coefficient values loaded from the settings (line 14)
    coeffs,   \* the shared coefficient object (K1..K7) the calls are given
    pc,       \* pc[p]: the statement caller p executes next
    frame,    \* frame[p]: the locals of caller p's call of tsky / _td
    calls,    \* calls[p]: the math functions that call has evaluated
    ret,      \* ret[p]: what the call of tsky returned or raised
    cls       \* cls[p]: caller p's call of classify_cloud_state and its result

vars == <<nanop, libm, loaded, coeffs, pc, frame, calls, ret, cls>>

Init ==
    /\ nanop \in NanOps
    /\ libm = NoLibm
    /\ coeffs \in CoeffSets
    /\ loaded = coeffs
    /\ pc = [p \in Callers |-> "idle"]
    /\ frame = [p \in Callers |-> NoFrame]
    /\ calls = [p \in Callers |-> {}]
    /\ ret = [p \in Callers |-> NoReturn]
    /\ cls = [p \in Callers |-> NoClass]

InitConc ==
    /\ nanop \in NanOps
    /\ libm = NoLibm
    /\ coeffs \in ConcCoeffSets
    /\ loaded = coeffs
    /\ pc = [p \in Callers |-> "idle"]
    /\ frame = [p \in Callers |-> NoFrame]
    /\ calls = [p \in Callers |-> {}]
    /\ ret = [p \in Callers |-> NoReturn]
    /\ cls = [p \in Callers |-> NoClass]

\* line 78 (entry): caller p calls tsky(ts, ta, coeffs), which calls _td(ta, coeffs).
\* As a function is called, the interpreter may replace the code it runs for
\* the function's instructions.
CallTsky(p, TS, TA) ==
    /\ pc[p] \in {"idle", "returned", "classified"}
    /\ \E ts \in TS, ta \in TA :
          frame' = [frame EXCEPT ![p] = [NoFrame EXCEPT !.ts = ts, !.ta = ta]]
    /\ pc' = [pc EXCEPT ![p] = "term1"]
    /\ calls' = [calls EXCEPT ![p] = {}]
    /\ ret' = [ret EXCEPT ![p] = NoReturn]
    /\ cls' = [cls EXCEPT ![p] = NoClass]
    /\ nanop' \in NanOps
    /\ UNCHANGED <<libm, loaded, coeffs>>

\* line 47
StepTerm1(p) ==
    /\ pc[p] = "term1"
    /\ frame' = [frame EXCEPT ![p].term1 = term1(frame[p].ta, coeffs)]
    /\ pc' = [pc EXCEPT ![p] = "term2"]
    /\ UNCHANGED <<nanop, libm, loaded, coeffs, calls, ret, cls>>

\* A statement of _td that produced r: its value is bound to the local named
\* by bind, or its exception ends the call of tsky and leaves in that local
\* the value held, which it had when the exception was raised (line 49 has
\* bound term2 = 0.0 before line 52 raises).
\* A variant of the binding in which the intermediate names are module-level
\* globals: one caller's assignment is seen by every caller.
BoundGlobal(p, r, bind, held, next) ==
    /\ calls' = [calls EXCEPT ![p] = @ \cup r.calls]
    /\ IF r.exc = "none"
       THEN /\ frame' = [q \in Callers |-> [frame[q] EXCEPT ![bind] = r.v]]
            /\ pc' = [pc EXCEPT ![p] = next]
            /\ ret' = ret
       ELSE /\ frame' = [frame EXCEPT ![p] = [@ EXCEPT ![bind] = held]]
            /\ pc' = [pc EXCEPT ![p] = "returned"]
            /\ ret' = [ret EXCEPT ![p] = [v |-> Unbound, exc |-> r.exc]]
    /\ UNCHANGED <<nanop, loaded, coeffs, cls>>

Bound(p, r, bind, held, next) ==
    /\ calls' = [calls EXCEPT ![p] = @ \cup r.calls]
    /\ IF r.exc = "none"
       THEN /\ frame' = [frame EXCEPT ![p] = [@ EXCEPT ![bind] = r.v]]
            /\ pc' = [pc EXCEPT ![p] = next]
            /\ ret' = ret
       ELSE /\ frame' = [frame EXCEPT ![p] = [@ EXCEPT ![bind] = held]]
            /\ pc' = [pc EXCEPT ![p] = "returned"]
            /\ ret' = [ret EXCEPT ![p] = [v |-> Unbound, exc |-> r.exc]]
    /\ UNCHANGED <<nanop, loaded, coeffs, cls>>

\* line 52, the power: ex is the result of math.exp, fe what is known of
\* math.exp after it, lo and hi the values of ex.v ** b on the two sides.
StepPow(p, fe, ex, b, lo, hi) ==
    \E d \in (IF ex.exc = "none" THEN Sides(libm.pow, <<ex.v, b>>, lo, hi) ELSE {-1}) :
        /\ libm' = [libm EXCEPT !.exp = fe,
                                !.pow = IF ex.exc = "none"
                                        THEN Shown(@, <<ex.v, b>>, d, lo, hi) ELSE @]
        /\ Bound(p, term2_pow(coeffs, ex, Sided(d, lo, hi)), "term2", Zero(0), "delta")

\* line 52, math.exp(x) with the value ex, then the power.
StepExpDone(p, fe, ex, b) == StepPow(p, fe, ex, b, PowAt(ex.v, b, -1), PowAt(ex.v, b, 1))

\* line 52: lo and hi are the values of math.exp(x) on the two sides.
StepExp(p, x, lo, hi) ==
    \E d \in Sides(libm.exp, x, lo, hi) :
        StepExpDone(p, Shown(libm.exp, x, d, lo, hi), Sided(d, lo, hi), term2_exponent(coeffs))

\* lines 49-54: when c.K3 is true, math.exp and ** are evaluated, each at
\* arguments at which the library's side is known or shows now.
StepTerm2(p) ==
    /\ pc[p] = "term2"
    /\ IF Truthy(coeffs.K3)
       THEN StepExp(p, term2_arg(frame[p].ta, coeffs),
                    ExpAt(term2_arg(frame[p].ta, coeffs), -1),
                    ExpAt(term2_arg(frame[p].ta, coeffs), 1))
       ELSE /\ libm' = libm
            /\ Bound(p, term2(frame[p].ta, coeffs), "term2", Zero(0), "delta")

\* line 56
StepDelta(p) ==
    /\ pc[p] = "delta"
    /\ frame' = [frame EXCEPT ![p].delta = delta(frame[p].ta, coeffs)]
    /\ pc' = [pc EXCEPT ![p] = "t67"]
    /\ UNCHANGED <<nanop, libm, loaded, coeffs, calls, ret, cls>>

\* line 60: lo and hi are the values of math.log10(delta) on the two sides.
StepLog10(p, lo, hi) ==
    \E d \in Sides(libm.log, frame[p].delta, lo, hi) :
        /\ libm' = [libm EXCEPT !.log = Shown(@, frame[p].delta, d, lo, hi)]
        /\ Bound(p, t67_of(frame[p].ta, coeffs, frame[p].delta, Sided(d, lo, hi)),
                 "t67", frame[p].t67, "sum")

\* lines 57-62: math.log10 is evaluated when delta < 1 is false.
StepT67(p) ==
    /\ pc[p] = "t67"
    /\ IF FLt(frame[p].delta, F(1, 0))
       THEN /\ libm' = libm
            /\ Bound(p, t67_of(frame[p].ta, coeffs, frame[p].delta, Log10(frame[p].delta)),
                     "t67", frame[p].t67, "sum")
       ELSE StepLog10(p, Log10At(frame[p].delta, -1), Log10At(frame[p].delta, 1))

\* line 64: _td returns term1 + term2 + t67
ReturnTd(p) ==
    /\ pc[p] = "sum"
    /\ frame' = [frame EXCEPT ![p].td = td_sum(frame[p].term1, frame[p].term2, frame[p].t67)]
    /\ pc' = [pc EXCEPT ![p] = "sub"]
    /\ UNCHANGED <<nanop, libm, loaded, coeffs, calls, ret, cls>>

\* line 78: tsky returns ts - _td(ta, coeffs)
ReturnTsky(p) ==
    /\ pc[p] = "sub"
    /\ ret' = [ret EXCEPT ![p] = [v |-> tsky_sub(frame[p].ts, frame[p].td), exc |-> "none"]]
    /\ pc' = [pc EXCEPT ![p] = "returned"]
    /\ UNCHANGED <<nanop, libm, loaded, coeffs, frame, calls, cls>>

\* lines 17, 126: caller p classifies the value tsky returned.
ClassifyTsky(p, LIM) ==
    /\ pc[p] = "returned"
    /\ ret[p].exc = "none"
    /\ \E l \in LIM :
          cls' = [cls EXCEPT ![p] =
                     [x |-> ret[p].v, clear_limit |-> l[1], cloudy_limit |-> l[2],
                      state |-> classify_cloud_state(ret[p].v, l[1], l[2])]]
    /\ pc' = [pc EXCEPT ![p] = "classified"]
    /\ UNCHANGED <<nanop, libm, loaded, coeffs, frame, calls, ret>>

\* lines 87-108: caller p classifies a corrected temperature it holds.
Classify(p, XS, LIM) ==
    /\ pc[p] \in {"idle", "classified"}
    /\ \E l \in LIM : \E x \in XS \cup {l[1], l[2]} :
          cls' = [cls EXCEPT ![p] =
                     [x |-> x, clear_limit |-> l[1], cloudy_limit |-> l[2],
                      state |-> classify_cloud_state(x, l[1], l[2])]]
    /\ pc' = [pc EXCEPT ![p] = "classified"]
    /\ frame' = [frame EXCEPT ![p] = NoFrame]
    /\ calls' = [calls EXCEPT ![p] = {}]
    /\ ret' = [ret EXCEPT ![p] = NoReturn]
    /\ UNCHANGED <<nanop, libm, loaded, coeffs>>

\* One caller, every input.
Next ==
    \/ CallTsky(1, TsInputs, Readings(coeffs))
    \/ StepTerm1(1)
    \/ StepTerm2(1)
    \/ StepDelta(1)
    \/ StepT67(1)
    \/ ReturnTd(1)
    \/ ReturnTsky(1)
    \/ ClassifyTsky(1, ConcLimits)
    \/ Classify(1, XInputs, Limits)

Spec == Init /\ [][Next]_vars

\* The callers interleaved, statement by statement.
NextConc ==
    \E p \in Callers :
        \/ CallTsky(p, ConcTsInputs, ConcTaInputs)
        \/ StepTerm1(p)
        \/ StepTerm2(p)
        \/ StepDelta(p)
        \/ StepT67(p)
        \/ ReturnTd(p)
        \/ ReturnTsky(p)
        \/ ClassifyTsky(p, ConcLimits)

SpecConc == InitConc /\ [][NextConc]_vars
(***************************************************************************)
(* The claims.                                                             *)
(***************************************************************************)

\* Caller p has classified a value: cls[p] holds the call and its result.
Classified(p) == pc[p] = "classified"

\* Caller p's call of tsky has returned a value.
Returned(p) == pc[p] \in {"returned", "classified"} /\ ret[p].exc = "none" /\ ret[p].v # Unbound

\* a and b are the same number (or both NaN).
Same(a, b) == (IsNaN(a) /\ IsNaN(b)) \/ FEq(a, b)

\* a is b to within 10^-14.
Near(a, b) == FLt(FAbs(FSub(a, b)), F(1, -14))

\* a + b is finite and was computed without rounding.
ExactAdd(a, b) == IsFin(a) /\ IsFin(b) /\ AddR(a, b).exact /\ IsFin(AddR(a, b).v)

ExactSub(a, b) == ExactAdd(a, FNeg(b))

\* Offsets d of the linearity claim.
Offsets == {F(5, 0), F(5, -2), F(-100, 0), Inf(1)}

\* C1 as stated: for every x and every pair of boundaries the result is CLEAR
\* if x < clear_limit, VERY_CLOUDY if x > cloudy_limit, and CLOUDY otherwise.
C1_AsStated ==
    \A p \in Callers : Classified(p) =>
        /\ FLt(cls[p].x, cls[p].clear_limit) => cls[p].state = CLEAR
        /\ FGt(cls[p].x, cls[p].cloudy_limit) => cls[p].state = VERY_CLOUDY
        /\ (~FLt(cls[p].x, cls[p].clear_limit) /\ ~FGt(cls[p].x, cls[p].cloudy_limit))
              => cls[p].state = CLOUDY

\* C1 amended: the result is CLEAR if x < clear_limit; VERY_CLOUDY if
\* x > cloudy_limit and not x < clear_limit; CLOUDY in every other case.
C1_FirstMatch ==
    \A p \in Callers : Classified(p) =>
        /\ FLt(cls[p].x, cls[p].clear_limit) => cls[p].state = CLEAR
        /\ (~FLt(cls[p].x, cls[p].clear_limit) /\ FGt(cls[p].x, cls[p].cloudy_limit))
              => cls[p].state = VERY_CLOUDY
        /\ (~FLt(cls[p].x, cls[p].clear_limit) /\ ~FGt(cls[p].x, cls[p].cloudy_limit))
              => cls[p].state = CLOUDY

\* C1 witness: a value below clear_limit and above cloudy_limit was classified CLEAR.
C1_Witness ==
    \E p \in Callers :
        /\ Classified(p)
        /\ FLt(cls[p].x, cls[p].clear_limit)
        /\ FGt(cls[p].x, cls[p].cloudy_limit)
        /\ cls[p].state = CLEAR

\* C2 as stated: for every pair of boundaries, classifying clear_limit itself
\* and classifying cloudy_limit itself both give CLOUDY.
C2_AsStated ==
    \A p \in Callers : Classified(p) =>
        ((cls[p].x = cls[p].clear_limit \/ cls[p].x = cls[p].cloudy_limit)
            => cls[p].state = CLOUDY)

\* C2 amended: for every pair of boundaries that is not inverted (not
\* clear_limit > cloudy_limit), classifying either limit gives CLOUDY.
C2_NotInverted ==
    \A p \in Callers : (Classified(p) /\ ~FGt(cls[p].clear_limit, cls[p].cloudy_limit)) =>
        ((cls[p].x = cls[p].clear_limit \/ cls[p].x = cls[p].cloudy_limit)
            => cls[p].state = CLOUDY)

\* C2 witness: with clear_limit < cloudy_limit, clear_limit itself was classified CLOUDY.
C2_Witness ==
    \E p \in Callers :
        /\ Classified(p)
        /\ FLt(cls[p].clear_limit, cls[p].cloudy_limit)
        /\ cls[p].x = cls[p].clear_limit
        /\ cls[p].state = CLOUDY

\* C3: for fixed boundaries, x <= y implies classify(x) <= classify(y) in the
\* order CLEAR < CLOUDY < VERY_CLOUDY.
C3_Monotonic ==
    \A p \in Callers : Classified(p) =>
        \A y \in XInputs :
            /\ FLe(cls[p].x, y) =>
                  cls[p].state <= classify_cloud_state(y, cls[p].clear_limit, cls[p].cloudy_limit)
            /\ FLe(y, cls[p].x) =>
                  classify_cloud_state(y, cls[p].clear_limit, cls[p].cloudy_limit) <= cls[p].state

\* C3 witness: a classified value and a larger one in a strictly cloudier state.
C3_Witness ==
    \E p \in Callers :
        /\ Classified(p)
        /\ cls[p].state = CLOUDY
        /\ \E y \in XInputs :
              /\ FLt(cls[p].x, y)
              /\ classify_cloud_state(y, cls[p].clear_limit, cls[p].cloudy_limit) = VERY_CLOUDY

\* tsky(ts + d, ta, c) == tsky(ts, ta, c) + d for the call caller p has made,
\* td being the result of _td(ta, c).
LinearAt(p, d, td) == FEq(tsky_of(FAdd(frame[p].ts, d), td).v, FAdd(ret[p].v, d))

LinearFor(p, td) == \A d \in Offsets : LinearAt(p, d, td)

\* The same whenever the four additions and subtractions are exact; the call
\* returned ts minus the drift term.
LinearWhenExact(p, td) ==
    /\ ret[p].v = FSub(frame[p].ts, frame[p].td)
    /\ frame[p].td = td.v
    /\ \A d \in Offsets :
          (/\ ExactAdd(frame[p].ts, d)
           /\ ExactSub(frame[p].ts, frame[p].td)
           /\ ExactSub(FAdd(frame[p].ts, d), frame[p].td)
           /\ ExactAdd(FSub(frame[p].ts, frame[p].td), d))
          => LinearAt(p, d, td)

\* C4 as stated: tsky(ts + d, ta, c) == tsky(ts, ta, c) + d for every ts, d, ta, c.
C4_AsStated ==
    \A p \in Callers : (pc[p] = "returned" /\ Returned(p)) =>
        LinearFor(p, _td(frame[p].ta, coeffs))

\* C4 amended: tsky returns ts minus the drift term, which does not depend on
\* ts; tsky(ts + d, ta, c) == tsky(ts, ta, c) + d whenever ts + d, ts - drift,
\* (ts + d) - drift and (ts - drift) + d are finite and computed without rounding.
C4_LinearWhenExact ==
    \A p \in Callers : (pc[p] = "returned" /\ Returned(p)) =>
        LinearWhenExact(p, _td(frame[p].ta, coeffs))

\* C4 witness: a call with a drift term that is not zero has returned, and for
\* some offset the four operations are exact and the identity holds.
C4_Witness ==
    \E p \in Callers :
        /\ pc[p] = "returned"
        /\ Returned(p)
        /\ ~IsZero(frame[p].td)
        /\ \E d \in Offsets :
              /\ ExactAdd(frame[p].ts, d)
              /\ ExactSub(frame[p].ts, frame[p].td)
              /\ ExactSub(FAdd(frame[p].ts, d), frame[p].td)
              /\ ExactAdd(FSub(frame[p].ts, frame[p].td), d)
              /\ FEq(FSub(FAdd(frame[p].ts, d), frame[p].td), FAdd(ret[p].v, d))

\* C5: with the default coefficients and boundaries, ts = -30, ta = 10 gives
\* term1 3.3 and t67 19.6 (the floats next to them, 3.3000000000000003 and
\* 19.599999999999998), term2 0, the drift 22.9, the corrected value -52.9 and
\* CLEAR; ts = -5, ta = 0 gives drift 0, corrected -5 and VERY_CLOUDY.
C5_Concrete ==
    \A p \in Callers : (coeffs = Skytemp /\ Returned(p)) =>
        /\ (frame[p].ts = F(-30, 0) /\ frame[p].ta = F(10, 0)) =>
              /\ Near(frame[p].term1, F(33, -1))
              /\ frame[p].term2 = Zero(0)
              /\ Near(frame[p].t67, F(196, -1))
              /\ frame[p].td = F(229, -1)
              /\ ret[p].v = F(-529, -1)
              /\ (/\ Classified(p)
                  /\ cls[p].clear_limit = DefaultClearLimit
                  /\ cls[p].cloudy_limit = DefaultCloudyLimit) => cls[p].state = CLEAR
        /\ (frame[p].ts = F(-5, 0) /\ frame[p].ta = F(0, 0)) =>
              /\ frame[p].td = Zero(0)
              /\ ret[p].v = F(-5, 0)
              /\ (/\ Classified(p)
                  /\ cls[p].clear_limit = DefaultClearLimit
                  /\ cls[p].cloudy_limit = DefaultCloudyLimit) => cls[p].state = VERY_CLOUDY

\* C5 witness: the first reading, corrected and classified with the defaults.
C5_Witness ==
    \E p \in Callers :
        /\ coeffs = Skytemp
        /\ Classified(p)
        /\ frame[p].ts = F(-30, 0)
        /\ frame[p].ta = F(10, 0)
        /\ cls[p].x = ret[p].v
        /\ cls[p].clear_limit = DefaultClearLimit
        /\ cls[p].cloudy_limit = DefaultCloudyLimit
        /\ cls[p].state = CLEAR

\* C6 as stated: tsky never raises; the only failure, a range failure in
\* term2, is recovered with term2 = 0.
C6_Total ==
    \A p \in Callers : pc[p] = "returned" => ret[p].exc = "none"

\* The results r1 and r2 of two calls of tsky are the same: the same exception,
\* or the same value.
SameResult(r1, r2) == r1 = r2

\* The same, but for the sign bit of a NaN.
SameButNaNSign(r1, r2) ==
    /\ r1.exc = r2.exc
    /\ r1.v = r2.v \/ (IsNaN(r1.v) /\ IsNaN(r2.v))

\* The callers p and q have both completed a call of tsky with the same arguments.
SameCall(p, q) ==
    /\ pc[p] = "returned"
    /\ pc[q] = "returned"
    /\ frame[p].ts = frame[q].ts
    /\ frame[p].ta = frame[q].ta

\* C7 as stated: in every interleaving each call returns exactly the value the
\* same call returns when run alone: what tsky gives for its arguments, and
\* what any other call with the same arguments has returned; a classification
\* is that of the value; the coefficient set is left unchanged.
C7_AsStated ==
    /\ coeffs = loaded
    /\ \A p \in Callers :
          /\ pc[p] = "returned" =>
                SameResult(ret[p], tsky(frame[p].ts, frame[p].ta, loaded))
          /\ Classified(p) =>
                /\ cls[p].x = tsky(frame[p].ts, frame[p].ta, loaded).v
                /\ cls[p].state =
                      classify_cloud_state(cls[p].x, cls[p].clear_limit, cls[p].cloudy_limit)
          /\ \A q \in Callers : SameCall(p, q) => SameResult(ret[p], ret[q])

\* C7 amended: in every interleaving each call returns (or raises) what the
\* same call returns when run alone, except that a NaN result may differ from
\* it in its sign bit; a classification is that of the value returned; the
\* coefficient set is left unchanged.
C7_Independent ==
    /\ coeffs = loaded
    /\ \A p \in Callers :
          /\ pc[p] = "returned" =>
                SameButNaNSign(ret[p], tsky(frame[p].ts, frame[p].ta, loaded))
          /\ Classified(p) =>
                /\ cls[p].x = ret[p].v
                /\ SameButNaNSign(ret[p], tsky(frame[p].ts, frame[p].ta, loaded))
                /\ cls[p].state =
                      classify_cloud_state(cls[p].x, cls[p].clear_limit, cls[p].cloudy_limit)
          /\ \A q \in Callers : SameCall(p, q) => SameButNaNSign(ret[p], ret[q])

\* C7 witness: two callers have completed the same call, interleaved, and it
\* returned a NaN to both, with different sign bits.
C7_Witness ==
    \E p, q \in Callers :
        /\ p # q
        /\ SameCall(p, q)
        /\ IsNaN(ret[p].v)
        /\ IsNaN(ret[q].v)
        /\ ret[p].v # ret[q].v

\* t67 has been computed in caller p's call.
HasT67(p) == frame[p].t67 # Unbound

\* C8 as stated: when delta < 1, t67 has magnitude delta and the sign of K6
\* (zero counts as positive), whatever K7 is, and no logarithm is evaluated;
\* the logarithmic formula is used only when delta >= 1.
C8_AsStated ==
    \A p \in Callers : HasT67(p) =>
        /\ FLt(frame[p].delta, F(1, 0)) =>
              /\ FAbs(frame[p].t67) = frame[p].delta
              /\ (frame[p].t67.s = 1) <=> FLt(coeffs.K6, Zero(0))
              /\ "log10" \notin calls[p]
        /\ "log10" \in calls[p] => FLe(F(1, 0), frame[p].delta)

\* C8 amended: when delta < 1, t67 has magnitude delta and the sign bit of K6
\* (+0.0 positive, -0.0 negative), whatever K7 is, and no logarithm is
\* evaluated; the logarithmic formula is used exactly when delta < 1 is false
\* (delta >= 1, or delta is NaN).
C8_SignBit ==
    \A p \in Callers : HasT67(p) =>
        /\ FLt(frame[p].delta, F(1, 0)) =>
              /\ FAbs(frame[p].t67) = frame[p].delta
              /\ frame[p].t67.s = coeffs.K6.s
              /\ "log10" \notin calls[p]
              /\ \A k7 \in {F(0, 0), F(-40, 0), F(999, 0), NaN(0)} :
                    t67(frame[p].ta, [coeffs EXCEPT !.K7 = k7]).v = frame[p].t67
        /\ "log10" \in calls[p] <=> ~FLt(frame[p].delta, F(1, 0))
        /\ "log10" \in calls[p] => (FLe(F(1, 0), frame[p].delta) \/ IsNaN(frame[p].delta))

\* C8 witness: delta = 0.5 and K6 = -0.0 gave t67 = -0.5.
C8_Witness ==
    \E p \in Callers :
        /\ HasT67(p)
        /\ frame[p].delta = F(5, -1)
        /\ coeffs.K6 = NegZero
        /\ frame[p].t67 = F(-5, -1)

\* C9: when K3 == 0, term2 is exactly 0 whatever K4 and K5 are, the
\* exponential is not evaluated, and the drift term equals term1 + t67.
C9_K3Zero ==
    \A p \in Callers : (FEq(coeffs.K3, Zero(0)) /\ pc[p] \notin {"idle", "term1", "term2"}) =>
        /\ ret[p].exc = "none"
        /\ frame[p].ts # Unbound =>
              /\ frame[p].term2 = Zero(0)
              /\ calls[p] \cap {"exp", "pow"} = {}
              /\ frame[p].td # Unbound => Same(frame[p].td, FAdd(frame[p].term1, frame[p].t67))

\* C9 witness: K3 = 0 with K4 = 1000, K5 = -100 and ta = -800, where evaluating
\* the exponential and the power would fail; the drift term was computed.
C9_Witness ==
    \E p \in Callers :
        /\ IsZero(coeffs.K3)
        /\ coeffs.K4 = F(1000, 0)
        /\ coeffs.K5 = F(-100, 0)
        /\ frame[p].ta = F(-800, 0)
        /\ frame[p].td # Unbound
        /\ frame[p].term2 = Zero(0)

\* C10 as stated: with clear_limit > cloudy_limit the result is never CLOUDY:
\* CLEAR for every x < clear_limit, VERY_CLOUDY for every x >= clear_limit.
C10_AsStated ==
    \A p \in Callers : (Classified(p) /\ FGt(cls[p].clear_limit, cls[p].cloudy_limit)) =>
        /\ cls[p].state # CLOUDY
        /\ FLt(cls[p].x, cls[p].clear_limit) => cls[p].state = CLEAR
        /\ FLe(cls[p].clear_limit, cls[p].x) => cls[p].state = VERY_CLOUDY

\* C10 amended: with clear_limit > cloudy_limit the result is never CLOUDY for
\* an x that is not NaN: CLEAR for every x < clear_limit, VERY_CLOUDY for every
\* x >= clear_limit; a NaN x is CLOUDY.
C10_ExceptNaN ==
    \A p \in Callers : (Classified(p) /\ FGt(cls[p].clear_limit, cls[p].cloudy_limit)) =>
        /\ ~IsNaN(cls[p].x) => cls[p].state # CLOUDY
        /\ IsNaN(cls[p].x) => cls[p].state = CLOUDY
        /\ FLt(cls[p].x, cls[p].clear_limit) => cls[p].state = CLEAR
        /\ FLe(cls[p].clear_limit, cls[p].x) => cls[p].state = VERY_CLOUDY

\* C10 witness: with an inverted pair, a value at or above clear_limit was
\* classified VERY_CLOUDY.
C10_Witness ==
    \E p \in Callers :
        /\ Classified(p)
        /\ FGt(cls[p].clear_limit, cls[p].cloudy_limit)
        /\ FLe(cls[p].clear_limit, cls[p].x)
        /\ cls[p].state = VERY_CLOUDY

====
